---- MODULE Spec2Model ----
(***************************************************************************)
(* A model of the PDF content extractor: the style classifier, the text    *)
(* normalizer, the table and image detectors, the region reconciler with   *)
(* its section tracker, the page orchestrator and the document             *)
(* orchestrator (src/src/parser.py), and the command line entry point      *)
(* (src/main.py).                                                          *)
(*                                                                         *)
(* Strings are sequences of one-character strings, so that strip(),        *)
(* lower() and the substring test are computed.  Font sizes are floats: a  *)
(* size is counted in quarters of a point (48 is 12.0, 50 is 12.5), which  *)
(* are exact as floats.  A bounding box is <<x0, y0, x1, y1>>.             *)
(***************************************************************************)
EXTENDS Integers, Sequences, FiniteSets, Bags, TLC

VARIABLES
    current_section,      \* PDFParser.current_section
    current_sub_section,  \* PDFParser.current_sub_section (None or Str(text))
    pc,                   \* where the caller / parse / parse_page stands
    caller,               \* "main" (main.py through parse_pdf) or "direct" (parser.parse)
    pdf_path,             \* the argument of parse
    doc,                  \* the document handle of the current parse
    page_num,             \* the loop variable of parse
    output_data,          \* the dictionary parse builds
    result,               \* what parse returned (NoDocument or a document), or Raised
    output_file,          \* the file main writes (NoFile until written)
    tables,               \* what camelot.read_pdf gave for the page
    tables_data,          \* parse_page: the table items
    table_bboxes,         \* parse_page: the tables' suppression boxes
    images,               \* what page.get_images gave (each with its bbox)
    images_data,          \* parse_page: the chart items
    image_bboxes,         \* parse_page: the images' suppression boxes
    blocks,               \* extract_text_blocks: the blocks of the page taken so far
    text_blocks,          \* extract_text_blocks: the paragraph items so far
    page_entry,           \* history: the tracker when parse_page was entered
    n_parses,             \* calls of parse so far
    n_items,              \* input elements (candidates, images, blocks) read so far
    span,                 \* style classifier: the span classified
    style                 \* style classifier: the result

vars == <<current_section, current_sub_section, pc, caller, pdf_path, doc, page_num,
          output_data, result, output_file, tables, tables_data, table_bboxes, images,
          images_data, image_bboxes, blocks, text_blocks, page_entry, n_parses,
          n_items, span, style>>

parserVars == <<current_section, current_sub_section>>
pageVars == <<tables, tables_data, table_bboxes, images, images_data, image_bboxes,
              blocks, text_blocks, page_entry>>
styleVars == <<span, style>>

----------------------------------------------------------------------------
(* Bounds *)

\* pages of a document
MaxPages == 2
\* calls of parse in one run
MaxParses == 2
\* table candidates, images and text blocks read in one run, all pages together
MaxItems == 4
\* table candidates camelot returns for one page
MaxCands == 2
\* images of one page
MaxImages == 1
\* the largest span size of the style classifier's inputs, in quarter points
MaxSize4 == 72

----------------------------------------------------------------------------
(* Strings *)

Whitespace == {" ", "\n", "\t"}

RECURSIVE LStrip(_)
LStrip(s) ==
    IF s = <<>> THEN s
    ELSE IF Head(s) \in Whitespace THEN LStrip(Tail(s)) ELSE s

RECURSIVE RStrip(_)
RStrip(s) ==
    IF s = <<>> THEN s
    ELSE IF s[Len(s)] \in Whitespace THEN RStrip(SubSeq(s, 1, Len(s) - 1)) ELSE s

PyStrip(s) == RStrip(LStrip(s))

UpperCase == <<"A", "B", "C", "D", "E", "F", "G", "H", "I", "J", "K", "L", "M",
               "N", "O", "P", "Q", "R", "S", "T", "U", "V", "W", "X", "Y", "Z">>
LowerCase == <<"a", "b", "c", "d", "e", "f", "g", "h", "i", "j", "k", "l", "m",
               "n", "o", "p", "q", "r", "s", "t", "u", "v", "w", "x", "y", "z">>

LowerChar(c) ==
    IF \E i \in 1..Len(UpperCase) : UpperCase[i] = c
    THEN LowerCase[CHOOSE i \in 1..Len(UpperCase) : UpperCase[i] = c]
    ELSE c

PyLower(s) == [i \in 1..Len(s) |-> LowerChar(s[i])]

PyIn(sub, s) ==
    \E i \in 1..(Len(s) - Len(sub) + 1) : SubSeq(s, i, i + Len(sub) - 1) = sub

None == [null |-> TRUE, str |-> <<>>]
Str(s) == [null |-> FALSE, str |-> s]

Default == <<"D", "e", "f", "a", "u", "l", "t">>

----------------------------------------------------------------------------
(* Style classifier: PDFParser.get_text_style *)

\* Python's round() of a float to an integer: to the nearest, a tie to the even one.
PyRound(size4) ==
    LET q == size4 \div 4
        r == size4 % 4
    IN  IF r < 2 THEN q
        ELSE IF r > 2 THEN q + 1
        ELSE IF q % 2 = 0 THEN q ELSE q + 1

\* get_text_style without the round(): the thresholds on the size as it is
get_text_style_unrounded(sp) ==
    LET is_bold == PyIn(<<"b", "o", "l", "d">>, PyLower(sp.font))
    IN  IF sp.size > 15 * 4 THEN "h1"
        ELSE IF sp.size >= 12 * 4 /\ is_bold THEN "h2"
        ELSE IF sp.size > 12 * 4 THEN "h2"
        ELSE "p"

get_text_style(sp) ==
    LET font_size == PyRound(sp.size)
        is_bold == PyIn(<<"b", "o", "l", "d">>, PyLower(sp.font))
    IN  IF font_size > 15 THEN "h1"
        ELSE IF font_size >= 12 /\ is_bold THEN "h2"
        ELSE IF font_size > 12 THEN "h2"
        ELSE "p"

----------------------------------------------------------------------------
(* Text block normalizer: PDFParser.extract_clean_text *)

RECURSIVE JoinSpans(_)
JoinSpans(spans) ==
    IF spans = <<>> THEN <<>> ELSE Head(spans).text \o JoinSpans(Tail(spans))

RECURSIVE FullText(_)
FullText(lines) ==
    IF lines = <<>> THEN <<>>
    ELSE PyStrip(JoinSpans(Head(lines).spans)) \o <<"\n">> \o FullText(Tail(lines))

extract_clean_text(block) == PyStrip(FullText(block.lines))

----------------------------------------------------------------------------
(* Rectangles: fitz.Rect as the parser uses it *)

Max(a, b) == IF a >= b THEN a ELSE b
Min(a, b) == IF a <= b THEN a ELSE b

IsEmpty(r) == r[1] >= r[3] \/ r[2] >= r[4]

Intersect(a, b) == <<Max(a[1], b[1]), Max(a[2], b[2]), Min(a[3], b[3]), Min(a[4], b[4])>>

\* intersects with touching edges counted as an intersection
IntersectsTouching(a, b) ==
    /\ ~IsEmpty(a)
    /\ ~IsEmpty(b)
    /\ Max(a[1], b[1]) <= Min(a[3], b[3])
    /\ Max(a[2], b[2]) <= Min(a[4], b[4])

\* Rect.intersects: false for an empty rectangle, else whether the intersection
\* is not empty.
Intersects(a, b) ==
    /\ ~IsEmpty(a)
    /\ ~IsEmpty(b)
    /\ ~IsEmpty(Intersect(a, b))

\* any(bbox.intersects(block_rect) for bbox in ignore_bboxes)
Suppressed(block_rect, ignore_bboxes) ==
    \E i \in 1..Len(ignore_bboxes) : Intersects(ignore_bboxes[i], block_rect)

----------------------------------------------------------------------------
(* Table detector: PDFParser.extract_tables *)

\* page.rect.height of every page of the model's documents
PageHeight == 10

Rows(df) == Len(df)
Cols(df) == IF df = <<>> THEN 0 ELSE Len(df[1])

\* the two false-positive filters (the `continue`s)
FilteredOut(table) ==
    \/ Cols(table.df) <= 1
    \/ Rows(table.df) > 10 /\ Cols(table.df) < 3

\* x1, y1_camelot, x2, y2_camelot = table._bbox raises unless _bbox has four entries
BboxRaises(table) == Len(table.bbox) # 4

ConvertBbox(b, page_height) == <<b[1], page_height - b[4], b[3], page_height - b[2]>>

RECURSIVE CleanRow(_)
CleanRow(row) ==
    IF row = <<>> THEN <<>>
    ELSE IF PyStrip(Head(row)) # <<>>
         THEN <<PyStrip(Head(row))>> \o CleanRow(Tail(row))
         ELSE CleanRow(Tail(row))

RECURSIVE FinalTableData(_)
FinalTableData(df) ==
    IF df = <<>> THEN <<>>
    ELSE IF CleanRow(Head(df)) # <<>>
         THEN <<CleanRow(Head(df))>> \o FinalTableData(Tail(df))
         ELSE FinalTableData(Tail(df))

\* a table item that takes the section and leaves the subsection out
TableItemNoSubSection(table_bbox, sec, sub, final_table_data) ==
    [type |-> "table", bbox |-> table_bbox, section |-> sec, sub_section |-> None,
     table_data |-> final_table_data]

TableItem(table_bbox, sec, sub, final_table_data) ==
    [type |-> "table", bbox |-> table_bbox, section |-> sec, sub_section |-> sub,
     table_data |-> final_table_data]

\* the body of the for loop over the candidates, from candidate i on; an exception
\* leaves the loop with the two lists as they stand
RECURSIVE TablesLoop(_, _, _, _, _, _)
TablesLoop(cands, i, td, ib, sec, sub) ==
    IF i > Len(cands) THEN [tables_data |-> td, ignore_bboxes |-> ib]
    ELSE LET table == cands[i] IN
         IF FilteredOut(table) THEN TablesLoop(cands, i + 1, td, ib, sec, sub)
         ELSE IF BboxRaises(table) THEN [tables_data |-> td, ignore_bboxes |-> ib]
         ELSE LET table_bbox == ConvertBbox(table.bbox, PageHeight)
                  final_table_data == FinalTableData(table.df)
              IN  TablesLoop(cands, i + 1,
                             IF final_table_data # <<>>
                             THEN Append(td, TableItem(table_bbox, sec, sub, final_table_data))
                             ELSE td,
                             Append(ib, table_bbox), sec, sub)

\* read is what camelot.read_pdf did: it raised (ok = FALSE) or returned candidates
extract_tables(read, sec, sub) ==
    IF ~read.ok THEN [tables_data |-> <<>>, ignore_bboxes |-> <<>>]
    ELSE TablesLoop(read.list, 1, <<>>, <<>>, sec, sub)

----------------------------------------------------------------------------
(* Image detector: PDFParser.extract_images *)

ChartItem(bbox, sec, sub, page_number) ==
    [type |-> "chart", bbox |-> bbox, section |-> sec, sub_section |-> sub,
     description |-> page_number]

RECURSIVE ImagesLoop(_, _, _, _, _, _, _)
ImagesLoop(imgs, i, idata, ib, sec, sub, number) ==
    IF i > Len(imgs) THEN [images_data |-> idata, ignore_bboxes |-> ib]
    ELSE IF IsEmpty(imgs[i]) THEN ImagesLoop(imgs, i + 1, idata, ib, sec, sub, number)
    ELSE ImagesLoop(imgs, i + 1,
                    Append(idata, ChartItem(imgs[i], sec, sub, number + 1)),
                    Append(ib, imgs[i]), sec, sub, number)

extract_images(imgs, sec, sub, number) == ImagesLoop(imgs, 1, <<>>, <<>>, sec, sub, number)

----------------------------------------------------------------------------
(* Region reconciler and section tracker: PDFParser.extract_text_blocks *)

\* main_style of a block: the style of the first span of the first line
MainStyle(block) ==
    IF block.lines # <<>> /\ block.lines[1].spans # <<>>
    THEN get_text_style(block.lines[1].spans[1])
    ELSE "p"

\* whether the loop body `continue`s before it reaches the style
Skipped(block, ignore_bboxes) ==
    \/ block.type # 0
    \/ Suppressed(block.bbox, ignore_bboxes)
    \/ extract_clean_text(block) = <<>>

\* a tracker whose major heading does not reset the subsection
SectionAfterKeepingSub(main_style, cleaned_text, sec, sub) ==
    IF main_style = "h1" THEN <<cleaned_text, sub>>
    ELSE IF main_style = "h2" THEN <<sec, Str(cleaned_text)>>
    ELSE <<sec, sub>>

\* the tracker after a block of style main_style and text cleaned_text
SectionAfter(main_style, cleaned_text, sec, sub) ==
    IF main_style = "h1" THEN <<cleaned_text, None>>
    ELSE IF main_style = "h2" THEN <<sec, Str(cleaned_text)>>
    ELSE <<sec, sub>>

ParagraphItem(bbox, cleaned_text, sec, sub) ==
    [bbox |-> bbox, text |-> cleaned_text, type |-> "paragraph",
     section |-> sec, sub_section |-> sub]

----------------------------------------------------------------------------
(* Page orchestrator: the sort and the cleanup of PDFParser.parse_page *)

SortKey(item) == item.bbox[2]

\* an insertion that puts x before the elements of equal key: a sort that is not stable
RECURSIVE InsertBeforeEqual(_, _)
InsertBeforeEqual(s, x) ==
    IF s = <<>> THEN <<x>>
    ELSE IF SortKey(s[Len(s)]) < SortKey(x) THEN Append(s, x)
    ELSE Append(InsertBeforeEqual(SubSeq(s, 1, Len(s) - 1), x), s[Len(s)])

\* x put behind every element of the sorted sequence s whose key is not larger
RECURSIVE InsertSorted(_, _)
InsertSorted(s, x) ==
    IF s = <<>> THEN <<x>>
    ELSE IF SortKey(s[Len(s)]) <= SortKey(x) THEN Append(s, x)
    ELSE Append(InsertSorted(SubSeq(s, 1, Len(s) - 1), x), s[Len(s)])

\* sorted(all_content, key=...): stable
RECURSIVE Sorted(_)
Sorted(s) ==
    IF s = <<>> THEN <<>>
    ELSE InsertSorted(Sorted(SubSeq(s, 1, Len(s) - 1)), s[Len(s)])

\* del item['bbox']
DelBbox(item) == [k \in (DOMAIN item) \ {"bbox"} |-> item[k]]

PageContent(content) == LET s == Sorted(content) IN [i \in 1..Len(s) |-> DelBbox(s[i])]

----------------------------------------------------------------------------
(* Inputs: what the file system and the two collaborators can give *)

SeqsUpTo(S, k) == UNION {[1..n -> S] : n \in 0..k}

Paths == {"a.pdf", "missing.pdf", "corrupt.pdf"}
PathExists(path) == path # "missing.pdf"
CanOpen(path) == path = "a.pdf"

FontArial == <<"A", "r", "i", "a", "l">>
FontBold == <<"A", "-", "B", "o", "l", "d">>
FontUpper == <<"B", "O", "L", "D">>
FontObl == <<"O", "b", "l">>
Fonts == {FontArial, FontBold, FontUpper, FontObl}

TextIntro == <<"I", "n", "t", "r", "o">>
TextBackground == <<"B", "a", "c", "k", "g", "r", "o", "u", "n", "d">>

Span(text, size4, font) == [text |-> text, size |-> size4, font |-> font]
Line(spans) == [spans |-> spans]
Block(type, bbox, lines) == [type |-> type, bbox |-> bbox, lines |-> lines]

\* The page is 10 wide and PageHeight high.  A major heading across the top; a
\* paragraph of two spans in the left column, its first span small and plain; a
\* minor heading (12.0, bold) across the middle; a paragraph in the left column
\* whose first line has no span; a blank block of heading size; an image block.
BlockH1 == Block(0, <<0, 0, 10, 2>>, <<Line(<<Span(TextIntro, 64, FontArial)>>)>>)
BlockPa == Block(0, <<0, 2, 5, 4>>,
                 <<Line(<<Span(<<" ">>, 44, FontArial), Span(<<"a", " ">>, 80, FontBold)>>)>>)
BlockH2 == Block(0, <<0, 4, 10, 6>>, <<Line(<<Span(TextBackground, 48, FontBold)>>)>>)
BlockPb == Block(0, <<0, 6, 5, 8>>,
                 <<Line(<<>>), Line(<<Span(<<"b">>, 80, FontArial)>>)>>)
BlockBlank == Block(0, <<0, 8, 10, 9>>, <<Line(<<Span(<<" ", "\n">>, 80, FontArial)>>)>>)
BlockImage == Block(1, <<5, 2, 10, 4>>, <<>>)
BlockSet == {BlockH1, BlockPa, BlockH2, BlockPb, BlockBlank, BlockImage}

Grid(n, m, cell) == [i \in 1..n |-> [j \in 1..m |-> cell]]
Candidate(df, bbox) == [df |-> df, bbox |-> bbox]

\* Candidates, with their boxes as camelot gives them (on the page: beside the first
\* paragraph; anywhere; anywhere; over the first paragraph; over the minor heading
\* and the second paragraph), and one whose _bbox cannot be unpacked.
CandSet ==
    { Candidate(Grid(3, 3, <<"x">>), <<5, 6, 10, 8>>),
      Candidate(Grid(2, 1, <<"x">>), <<0, 6, 10, 8>>),
      Candidate(Grid(12, 2, <<"x">>), <<0, 6, 10, 8>>),
      Candidate(Grid(2, 2, <<" ">>), <<0, 6, 10, 8>>),
      Candidate(<<<<<<" ", "y", " ">>, <<>>>>, <<<<"\t">>, <<" ">>>>>>, <<0, 2, 10, 5>>),
      Candidate(Grid(3, 3, <<"x">>), <<>>) }

TableReads(k) ==
    {[ok |-> FALSE, list |-> <<>>]} \cup {[ok |-> TRUE, list |-> l] : l \in SeqsUpTo(CandSet, k)}

\* image boxes: one over the right of the minor heading, an empty one
ImageBoxes == {<<5, 5, 10, 8>>, <<3, 3, 3, 3>>}

NoSpan == Span(<<>>, 0, <<>>)
Spans == {Span(<<"t">>, size4, font) : size4 \in 36..MaxSize4, font \in Fonts}

----------------------------------------------------------------------------
(* The state machine *)

NoOutput == [file_path |-> "", total_pages |-> 0, pages |-> <<>>]
NoDoc == [state |-> "none", len |-> 0]
Pending == [kind |-> "pending", data |-> NoOutput]
NoFile == [written |-> FALSE, data |-> NoOutput]
NoTables == [ok |-> TRUE, list |-> <<>>]

PageInit ==
    /\ tables = NoTables
    /\ tables_data = <<>>
    /\ table_bboxes = <<>>
    /\ images = <<>>
    /\ images_data = <<>>
    /\ image_bboxes = <<>>
    /\ blocks = <<>>
    /\ text_blocks = <<>>
    /\ page_entry = <<Default, None>>

\* the locals of a new call of parse_page
PageReset ==
    /\ tables' = NoTables
    /\ tables_data' = <<>>
    /\ table_bboxes' = <<>>
    /\ images' = <<>>
    /\ images_data' = <<>>
    /\ image_bboxes' = <<>>
    /\ blocks' = <<>>
    /\ text_blocks' = <<>>
    /\ page_entry' = <<current_section, current_sub_section>>

\* PDFParser.__init__
NewParser ==
    /\ current_section' = Default
    /\ current_sub_section' = None

Init ==
    /\ current_section = Default
    /\ current_sub_section = None
    /\ pc = "idle"
    /\ caller = "none"
    /\ pdf_path = ""
    /\ doc = NoDoc
    /\ page_num = 0
    /\ output_data = NoOutput
    /\ result = Pending
    /\ output_file = NoFile
    /\ PageInit
    /\ n_parses = 0
    /\ n_items = 0
    /\ span = NoSpan
    /\ style = "none"

\* PDFParser.parse up to the page loop
EnterParse(path) ==
    /\ n_parses < MaxParses
    /\ n_parses' = n_parses + 1
    /\ pdf_path' = path
    /\ page_num' = 0
    /\ IF ~PathExists(path) \/ ~CanOpen(path)
       THEN /\ result' = [kind |-> "none", data |-> NoOutput]
            /\ pc' = "returned"
            /\ doc' = NoDoc
            /\ output_data' = NoOutput
       ELSE /\ \E n \in 1..MaxPages :
                 /\ doc' = [state |-> "open", len |-> n]
                 /\ output_data' = [file_path |-> path, total_pages |-> n, pages |-> <<>>]
            /\ result' = Pending
            /\ pc' = "loop"
    /\ UNCHANGED <<output_file, pageVars, n_items, styleVars>>

\* main.py: parse_pdf(args.input), which makes a parser of its own
ParsePdf ==
    /\ pc = "idle"
    /\ n_parses = 0
    /\ caller' = "main"
    /\ NewParser
    /\ \E path \in Paths : EnterParse(path)

\* parser.parse(path) on the parser that exists
Parse ==
    /\ pc = "idle"
    /\ caller' = "direct"
    /\ UNCHANGED parserVars
    /\ \E path \in Paths : EnterParse(path)

\* parse: the loop takes the next page; parse_page reads the page
BeginPage ==
    /\ pc = "loop"
    /\ page_num < doc.len
    /\ pc' = "tables"
    /\ PageReset
    /\ UNCHANGED <<parserVars, caller, pdf_path, doc, page_num, output_data, result,
                   output_file, n_parses, n_items, styleVars>>

\* parse_page step 1: extract_tables
ExtractTables ==
    /\ pc = "tables"
    /\ \E read \in TableReads(Min(MaxCands, MaxItems - n_items)) :
         LET r == extract_tables(read, current_section, current_sub_section) IN
         /\ tables' = read
         /\ tables_data' = r.tables_data
         /\ table_bboxes' = r.ignore_bboxes
         /\ n_items' = n_items + Len(read.list)
    /\ pc' = "images"
    /\ UNCHANGED <<parserVars, caller, pdf_path, doc, page_num, output_data, result,
                   output_file, images, images_data, image_bboxes, blocks,
                   text_blocks, page_entry, n_parses, styleVars>>

\* parse_page step 2: extract_images
ExtractImages ==
    /\ pc = "images"
    /\ \E imgs \in SeqsUpTo(ImageBoxes, Min(MaxImages, MaxItems - n_items)) :
         LET r == extract_images(imgs, current_section, current_sub_section, page_num) IN
         /\ images' = imgs
         /\ images_data' = r.images_data
         /\ image_bboxes' = r.ignore_bboxes
         /\ n_items' = n_items + Len(imgs)
    /\ tables' = NoTables
    /\ pc' = "text"
    /\ UNCHANGED <<parserVars, caller, pdf_path, doc, page_num, output_data, result,
                   output_file, tables_data, table_bboxes, blocks, text_blocks,
                   page_entry, n_parses, styleVars>>

\* a parse that catches the failure of a page and returns the pages it has
PageRaisesReturnsPartial ==
    /\ pc = "images"
    /\ pc' = "returned"
    /\ result' = [kind |-> "doc", data |-> output_data]
    /\ doc' = [doc EXCEPT !.state = "closed"]
    /\ PageReset
    /\ UNCHANGED <<parserVars, caller, pdf_path, page_num, output_data,
                   output_file, n_parses, n_items, styleVars>>

\* parse_page step 2 when page.get_images or page.get_image_bbox raises: nothing
\* catches it before the caller of parse
PageRaises ==
    /\ pc = "images"
    /\ pc' = "raised"
    /\ result' = [kind |-> "raised", data |-> NoOutput]
    /\ PageReset
    /\ UNCHANGED <<parserVars, caller, pdf_path, doc, page_num, output_data,
                   output_file, n_parses, n_items, styleVars>>

\* extract_text_blocks: one turn of the loop over the blocks of the page; blocks
\* holds the blocks the loop has taken so far
TextBlock ==
    /\ pc = "text"
    /\ n_items < MaxItems
    /\ \E block \in BlockSet :
         LET ignore_bboxes == table_bboxes \o image_bboxes
             cleaned_text == extract_clean_text(block)
             after == SectionAfter(MainStyle(block), cleaned_text,
                                   current_section, current_sub_section)
         IN  /\ blocks' = Append(blocks, block)
             /\ IF Skipped(block, ignore_bboxes)
                THEN UNCHANGED <<parserVars, text_blocks>>
                ELSE /\ current_section' = after[1]
                     /\ current_sub_section' = after[2]
                     /\ text_blocks' = Append(text_blocks,
                            ParagraphItem(block.bbox, cleaned_text, after[1], after[2]))
    /\ n_items' = n_items + 1
    /\ images' = <<>>
    /\ UNCHANGED <<pc, caller, pdf_path, doc, page_num, output_data, result,
                   output_file, tables, tables_data, table_bboxes, images_data,
                   image_bboxes, page_entry, n_parses, styleVars>>

\* parse_page after the text pass (concatenation, sort, cleanup) and parse's append
SortPage ==
    /\ pc = "text"
    /\ output_data' = [output_data EXCEPT !.pages =
           Append(@, [page_number |-> page_num + 1,
                      content |-> PageContent(tables_data \o images_data \o text_blocks)])]
    /\ page_num' = page_num + 1
    /\ pc' = "loop"
    /\ images' = <<>>
    /\ UNCHANGED <<parserVars, caller, pdf_path, doc, result, output_file, tables,
                   tables_data, table_bboxes, images_data, image_bboxes, blocks,
                   text_blocks, page_entry, n_parses, n_items, styleVars>>

\* parse after the last page: doc.close() and return output_data
Finish ==
    /\ pc = "loop"
    /\ page_num = doc.len
    /\ doc' = [doc EXCEPT !.state = "closed"]
    /\ result' = [kind |-> "doc", data |-> output_data]
    /\ pc' = "returned"
    /\ PageReset
    /\ UNCHANGED <<parserVars, caller, pdf_path, page_num, output_data, output_file,
                   n_parses, n_items, styleVars>>

\* main.py after parse_pdf returned: the file is written if the result is truthy
MainWrite ==
    /\ pc = "returned"
    /\ caller = "main"
    /\ output_file' = IF result.kind = "doc"
                      THEN [written |-> TRUE, data |-> result.data]
                      ELSE output_file
    /\ pc' = "exit"
    /\ UNCHANGED <<parserVars, caller, pdf_path, doc, page_num, output_data, result,
                   pageVars, n_parses, n_items, styleVars>>

\* main.py when parse_pdf raised: the run is aborted
MainAbort ==
    /\ pc = "raised"
    /\ caller = "main"
    /\ pc' = "exit"
    /\ UNCHANGED <<parserVars, caller, pdf_path, doc, page_num, output_data, result,
                   output_file, pageVars, n_parses, n_items, styleVars>>

\* the caller of parser.parse has its answer
Return ==
    /\ pc \in {"returned", "raised"}
    /\ caller = "direct"
    /\ pc' = "idle"
    /\ doc' = NoDoc
    /\ output_data' = NoOutput
    /\ result' = Pending
    /\ UNCHANGED <<parserVars, caller, pdf_path, page_num, output_file, pageVars,
                   n_parses, n_items, styleVars>>

Next ==
    \/ ParsePdf
    \/ Parse
    \/ BeginPage
    \/ ExtractTables
    \/ ExtractImages
    \/ PageRaises
    \/ TextBlock
    \/ SortPage
    \/ Finish
    \/ MainWrite
    \/ MainAbort
    \/ Return

Spec == Init /\ [][Next]_vars

----------------------------------------------------------------------------
(* The style classifier alone, over every span of Spans *)

InitStyle ==
    /\ current_section = Default
    /\ current_sub_section = None
    /\ pc = "idle"
    /\ caller = "none"
    /\ pdf_path = ""
    /\ doc = NoDoc
    /\ page_num = 0
    /\ output_data = NoOutput
    /\ result = Pending
    /\ output_file = NoFile
    /\ PageInit
    /\ n_parses = 0
    /\ n_items = 0
    /\ span \in Spans
    /\ style = "none"

Classify ==
    /\ style = "none"
    /\ style' = get_text_style(span)
    /\ UNCHANGED <<parserVars, pc, caller, pdf_path, doc, page_num, output_data, result,
                   output_file, pageVars, n_parses, n_items, span>>

NextStyle == Classify

SpecStyle == InitStyle /\ [][NextStyle]_vars

----------------------------------------------------------------------------
(* The claims *)

InParse == pc \in {"loop", "tables", "images", "text"}

\* two boxes share positive area
ShareArea(a, b) ==
    /\ Max(a[1], b[1]) < Min(a[3], b[3])
    /\ Max(a[2], b[2]) < Min(a[4], b[4])

\* the block the processing of which is the claims' case: a text block that no
\* suppression box of the page overlaps and that has text after normalization
Live(block) ==
    /\ block.type = 0
    /\ \A i \in 1..Len(table_bboxes \o image_bboxes) :
           ~ShareArea((table_bboxes \o image_bboxes)[i], block.bbox)
    /\ extract_clean_text(block) # <<>>

FirstSpanStyle(block) ==
    IF block.lines # <<>> /\ block.lines[1].spans # <<>>
    THEN get_text_style(block.lines[1].spans[1])
    ELSE "p"

\* a step of the loop over the text blocks, which takes the last block of blocks'
TextStep == pc = "text" /\ pc' = "text" /\ Len(blocks') = Len(blocks) + 1
TakenBlock == blocks'[Len(blocks')]

\* the page that parse_page has just returned, with the locals it was made from
PageDone == pc = "loop" /\ page_num >= 1
LastContent == output_data.pages[page_num].content
Concatenation == tables_data \o images_data \o text_blocks

\* C1: while a document is parsed, a step changes (current_section,
\* current_sub_section) only if it processes a text block that is not suppressed,
\* has text after normalization and whose first span is a heading: a major heading
\* sets the section to the block's text and the subsection to null, a minor heading
\* sets the subsection to the block's text and leaves the section; every other step
\* (paragraph block, discarded block, table detection, image detection, next page)
\* leaves both unchanged.
C1_TrackerTransitions ==
    [][InParse =>
         IF TextStep /\ Live(TakenBlock) /\ FirstSpanStyle(TakenBlock) = "h1"
         THEN /\ current_section' = extract_clean_text(TakenBlock)
              /\ current_sub_section' = None
         ELSE IF TextStep /\ Live(TakenBlock) /\ FirstSpanStyle(TakenBlock) = "h2"
         THEN /\ current_sub_section' = Str(extract_clean_text(TakenBlock))
              /\ current_section' = current_section
         ELSE /\ current_section' = current_section
              /\ current_sub_section' = current_sub_section]_vars

\* C1 witness: a major heading on page 1 still holds at a minor heading of page 2
C1_Witness ==
    /\ pc = "text"
    /\ page_num = 1
    /\ blocks = <<BlockH2>>
    /\ current_section = TextIntro
    /\ current_sub_section = Str(TextBackground)
    /\ page_entry = <<TextIntro, None>>

Labelled(item, sec, sub) == item.section = sec /\ item.sub_section = sub

\* the items of a sequence as a bag
RECURSIVE BagOfSeq(_)
BagOfSeq(q) ==
    IF q = <<>> THEN EmptyBag ELSE BagOfSeq(Tail(q)) (+) SetToBag({Head(q)})

WithoutBbox(item) == [k \in (DOMAIN item) \ {"bbox"} |-> item[k]]
WithoutBboxes(q) == [i \in 1..Len(q) |-> WithoutBbox(q[i])]

\* C2: every item carries the tracker state of the moment it was produced: a
\* paragraph item the state as updated by its own block, every table and chart item
\* the state held on entry to the page; items already produced keep their labels,
\* and the sort of the page keeps every item's label.
C2_LabelsAreSnapshots ==
    [][/\ \A i \in 1..Len(tables_data') :
             Labelled(tables_data'[i], page_entry'[1], page_entry'[2])
       /\ \A i \in 1..Len(images_data') :
             Labelled(images_data'[i], page_entry'[1], page_entry'[2])
       /\ TextStep =>
             /\ Len(text_blocks') >= Len(text_blocks)
             /\ SubSeq(text_blocks', 1, Len(text_blocks)) = text_blocks
             /\ Len(text_blocks') > Len(text_blocks) =>
                    Labelled(text_blocks'[Len(text_blocks')],
                             current_section', current_sub_section')
       /\ (pc = "text" /\ pc' = "loop") =>
             BagOfSeq(output_data'.pages[page_num'].content)
                 = BagOfSeq(WithoutBboxes(Concatenation))]_vars

\* C2 witness: the blocks [H1 "Intro", P "a", H2 "Background", P "b"] of one page
C2_Witness ==
    /\ PageDone
    /\ Len(LastContent) = 4
    /\ \A i \in 1..4 : LastContent[i].type = "paragraph"
    /\ LastContent[1].text = TextIntro /\ Labelled(LastContent[1], TextIntro, None)
    /\ LastContent[2].text = <<"a">> /\ Labelled(LastContent[2], TextIntro, None)
    /\ LastContent[3].text = TextBackground
    /\ Labelled(LastContent[3], TextIntro, Str(TextBackground))
    /\ LastContent[4].text = <<"b">>
    /\ Labelled(LastContent[4], TextIntro, Str(TextBackground))

\* C3: at the start of every document parse the tracker state is ("Default", null),
\* also for a later call of parse on the same PDFParser.
C3_TrackerFreshAtParseStart ==
    (pc = "loop" /\ page_num = 0) =>
        (current_section = Default /\ current_sub_section = None)

\* C4: once parse has opened the document, the handle is closed on every exit of
\* parse, the normal return and a failure raised while a page is processed.
C4_HandleReleasedOnExit ==
    (pc \in {"returned", "raised"} /\ doc.state # "none") => doc.state = "closed"

\* the table detection of the page failed: the collaborator call, or the handling
\* of a candidate the loop reaches
HandlingRaises(table) == ~FilteredOut(table) /\ BboxRaises(table)
DetectionFailed ==
    \/ ~tables.ok
    \/ \E i \in 1..Len(tables.list) : HandlingRaises(tables.list[i])

\* C5: a failure at any point of the table detection of a page does not escape, and
\* the detector then returns no table item and no suppression box.
C5_FailureGivesEmptyResults ==
    (pc = "images" /\ DetectionFailed) => (tables_data = <<>> /\ table_bboxes = <<>>)

\* C6: parse returns a document with exactly total_pages pages, numbered 1 to
\* total_pages in order, or it fails (missing path, open failure, failure in a page)
\* and returns no document; main writes no file unless a document was returned.
C6_NoPartialDocuments ==
    /\ pc \in {"returned", "raised", "exit"} => result.kind \in {"doc", "none", "raised"}
    /\ pc = "raised" => result.kind = "raised"
    /\ result.kind = "doc" =>
          /\ PathExists(pdf_path) /\ CanOpen(pdf_path)
          /\ Len(result.data.pages) = result.data.total_pages
          /\ result.data.total_pages = doc.len
          /\ \A i \in 1..Len(result.data.pages) :
                /\ result.data.pages[i].page_number = i
                /\ \A j \in 1..Len(result.data.pages[i].content) :
                      result.data.pages[i].content[j].type = "chart" =>
                          result.data.pages[i].content[j].description = i
    /\ (pc = "returned" /\ ~(PathExists(pdf_path) /\ CanOpen(pdf_path))) =>
          result.kind = "none"
    /\ output_file.written =>
          /\ result.kind = "doc"
          /\ output_file.data = result.data
    /\ (pc = "exit" /\ ~PathExists(pdf_path)) => ~output_file.written

\* C6 witness: main has written the two pages of a document
C6_Witness ==
    /\ pc = "exit"
    /\ output_file.written
    /\ Len(output_file.data.pages) = 2
    /\ output_file.data.pages[2].content # <<>>

RECURSIVE LiveTexts(_)
LiveTexts(bs) ==
    IF bs = <<>> THEN EmptyBag
    ELSE LiveTexts(Tail(bs)) (+)
         (IF Live(Head(bs)) THEN SetToBag({extract_clean_text(Head(bs))}) ELSE EmptyBag)

RECURSIVE ParagraphTexts(_)
ParagraphTexts(content) ==
    IF content = <<>> THEN EmptyBag
    ELSE ParagraphTexts(Tail(content)) (+)
         (IF Head(content).type = "paragraph"
          THEN SetToBag({Head(content).text}) ELSE EmptyBag)

\* C7: of the text blocks of a page, one whose box shares area with a suppression
\* box of the page gives no paragraph item, and one whose box is disjoint from all
\* of them and whose normalized text is not empty gives exactly one, with that text:
\* the paragraph texts of the page are, as a bag, the texts of these blocks.
C7_RegionReconciliation ==
    PageDone => ParagraphTexts(LastContent) = LiveTexts(blocks)

\* C7 witness: a page with a suppression box, a block under it, a block that only
\* touches it and a block away from it
C7_Witness ==
    /\ PageDone
    /\ table_bboxes = <<<<5, 2, 10, 4>>>>
    /\ image_bboxes = <<<<5, 5, 10, 8>>>>
    /\ blocks = <<BlockPa, BlockH2>>
    /\ Len(LastContent) = 3

\* the place of item i of the concatenation in the sorted page
Rank(q, i) ==
    1 + Cardinality({j \in 1..Len(q) :
                       \/ q[j].bbox[2] < q[i].bbox[2]
                       \/ q[j].bbox[2] = q[i].bbox[2] /\ j < i})

\* C8: the content of a page is a permutation of [tables, charts, paragraphs],
\* ordered by ascending top edge y, items of equal y in the order of the
\* concatenation, and no item of it has a bounding box.
C8_StableSortedContent ==
    PageDone =>
        /\ Len(LastContent) = Len(Concatenation)
        /\ \A i \in 1..Len(Concatenation) :
              LET out == LastContent[Rank(Concatenation, i)] IN
              /\ DOMAIN out = (DOMAIN Concatenation[i]) \ {"bbox"}
              /\ \A k \in DOMAIN out : out[k] = Concatenation[i][k]

\* C8 witness: a table and a paragraph of the same top edge, below a heading that
\* the concatenation has behind the table
C8_Witness ==
    /\ PageDone
    /\ Len(tables_data) = 1
    /\ blocks = <<BlockPa, BlockH1>>
    /\ Len(LastContent) = 3
    /\ LastContent[2].type = "table"
    /\ LastContent[1].type = "paragraph" /\ LastContent[1].text = TextIntro
    /\ LastContent[3].type = "paragraph" /\ LastContent[3].text = <<"a">>

IsBoldName(font) == font \in {FontBold, FontUpper}

\* the thresholds of the classifier applied to the size n, in quarter points
ByThresholds(n4, bold) ==
    IF n4 > 15 * 4 THEN "h1"
    ELSE IF n4 > 12 * 4 THEN "h2"
    ELSE IF n4 = 12 * 4 THEN (IF bold THEN "h2" ELSE "p")
    ELSE "p"

\* the integer nearest to a size, the even one of two equally near
Nearest(size4) ==
    CHOOSE n \in 0..(size4 + 1) :
        \/ 4 * n - size4 \in {-1, 0, 1}
        \/ 4 * n - size4 \in {-2, 2} /\ n % 2 = 0

\* C9 as stated: for every size, integer or fractional, and every font name: size
\* > 15 gives heading-major, size > 12 (not > 15) heading-minor, size exactly 12
\* heading-minor if the font name contains "bold" in any case and paragraph
\* otherwise, size < 12 paragraph.
C9_ThresholdsOnSize ==
    style # "none" => style = ByThresholds(span.size, IsBoldName(span.font))

\* C9 amended: the same with the size rounded to the nearest integer, a tie to the
\* even one, in place of the size.
C9_ThresholdsOnRoundedSize ==
    style # "none" => style = ByThresholds(4 * Nearest(span.size), IsBoldName(span.font))

\* C9 witness: size 12.5, plain font: rounded to 12, a paragraph
C9_Witness ==
    /\ style = "p"
    /\ span.size = 50
    /\ span.font = FontArial

RECURSIVE Survivors(_)
Survivors(cands) ==
    IF cands = <<>> THEN 0
    ELSE Survivors(Tail(cands)) +
         (IF /\ Cols(Head(cands).df) >= 2
             /\ ~(Rows(Head(cands).df) > 10 /\ Cols(Head(cands).df) < 3)
             /\ FinalTableData(Head(cands).df) # <<>>
          THEN 1 ELSE 0)

\* C10: a candidate gives a table item and one suppression box if and only if it
\* survives (at least 2 columns, not more than 10 rows with fewer than 3 columns, a
\* row left after cleaning); a discarded candidate gives neither, so the two lists
\* of the detector have the same length.
C10_ItemAndBoxPerSurvivor ==
    (pc = "images" /\ ~DetectionFailed) =>
        /\ Len(tables_data) = Survivors(tables.list)
        /\ Len(table_bboxes) = Survivors(tables.list)

====
